---- MODULE Spec2Model ----
(***************************************************************************)
(* Model of the entrance detector of the CV-SCAN backend:                  *)
(*   backend/door_detection.py  (detect_doors and its helpers)             *)
(*   backend/main.py            (the /detect handler around it)            *)
(*                                                                         *)
(* Numbers.  Pixel coordinates are integers, as in the code.  Floating     *)
(* point scores are kept in fixed point, in units of 1/10000 (Unit), each  *)
(* term of a sum truncated to that unit; every threshold comparison of the *)
(* code (x < 0.45*h, a/b > 0.4, ...) is made exactly, cross-multiplied.    *)
(* Line positions, which the code averages ((x1+x2)/2), are kept in half   *)
(* pixels.  What OpenCV returns for an image (clusters, connected          *)
(* components, Hough segments) is an input drawn from the values its       *)
(* contract allows.                                                        *)
(***************************************************************************)
EXTENDS Integers, Sequences, FiniteSets, TLC

VARIABLES
    pc,          \* position of the request in detect_entrances / detect_doors
    file,        \* the upload: content type, length, decoded size (0x0: undecodable)
    kidx,        \* index of the current k-means pass in KValues
    candidates,  \* the candidate pool of _find_door_regions, kept as it was at the sort
    regions,     \* what _find_door_regions returned
    result,      \* what detect_doors returned, NoResult until it returns
    exc,         \* the exception in flight, "none" if none
    status,      \* HTTP status of the response, 0 while the request runs
    ran,         \* the detectors detect_entrances has called so far, in order
    coco_result, \* what run_detection returned, None before and if it raised
    scene_dets,  \* what segment_scene returned, empty before and if it raised
    warnings,    \* the logger.warning calls of detect_entrances, in order
    response,    \* the body of the 200 response, NoResponse if there is none
    detector,    \* LoaderSpec only: the global _detector of model_loader
    attempts,    \* LoaderSpec only: the underlying loads started so far
    loads,       \* LoaderSpec only: the underlying loads that returned a model
    returns,     \* LoaderSpec only: what each load_model call returned, in order
    call         \* FunctionSpec only: the last call of a helper, its arguments and
                 \* what it returned; NoCall throughout a request

vars == <<pc, file, kidx, candidates, regions, result, exc, status, ran,
          coco_result, scene_dets, warnings, response, detector, attempts,
          loads, returns, call>>

(* what detect_entrances holds besides door_result *)
handler == <<coco_result, scene_dets, warnings, response>>

(* what model_loader holds, and the history of its calls *)
loader == <<detector, attempts, loads, returns>>

----------------------------------------------------------------------------
(* Bounds of the model *)

(* colour candidates in the pool, Hough segments, candidates in the pool *)
MaxCandidates == 2
MaxLines == 2
MaxPool == 3

(* calls of load_model in the life of one server process *)
MaxCalls == 3

(* Fixed point unit of scores: 1.0 *)
Unit == 100 * 100

----------------------------------------------------------------------------
(* Arithmetic helpers *)

Min(a, b) == IF a <= b THEN a ELSE b
Max(a, b) == IF a >= b THEN a ELSE b
Abs(a) == IF a < 0 THEN 0 - a ELSE a

RECURSIVE ISqrtIn(_, _, _)
ISqrtIn(n, lo, hi) ==
    IF lo >= hi THEN lo
    ELSE LET mid == (lo + hi + 1) \div 2
         IN  IF mid * mid <= n THEN ISqrtIn(n, mid, hi) ELSE ISqrtIn(n, lo, mid - 1)

(* floor of the square root of n, 0 <= n < 2^31 *)
ISqrt(n) == ISqrtIn(n, 0, 46340)

RECURSIVE Gcd(_, _)
Gcd(a, b) == IF b = 0 THEN a ELSE Gcd(b, a % b)

----------------------------------------------------------------------------
(* _decode_image: cv2.imdecode gives None (here: size 0x0) for bytes that  *)
(* are no image, and the function raises ValueError.                       *)

Decodes(f) == f.w > 0 /\ f.h > 0

(* detect_entrances, the checks made before detect_doors is called:        *)
(* "" when the upload is accepted, else the reason of the 400.             *)
UploadRejected(f, readFails) ==
    IF ~f.image_type THEN "not an image"
    ELSE IF readFails THEN "read failed"
    ELSE IF f.len = 0 THEN "empty file"
    ELSE ""

----------------------------------------------------------------------------
(* _find_door_regions, the resize: scale = min(1.0, 300.0 / max(h, w)) as  *)
(* the fraction ScaleNum/ScaleDen in lowest terms.                         *)

LongSide(w, h) == Max(h, w)
ScaleNum(w, h) == IF LongSide(w, h) <= 300 THEN 1 ELSE 300 \div Gcd(300, LongSide(w, h))
ScaleDen(w, h) == IF LongSide(w, h) <= 300 THEN 1 ELSE LongSide(w, h) \div Gcd(300, LongSide(w, h))

(* sh, sw = int(h * scale), int(w * scale) *)
SmallW(w, h) == (w * ScaleNum(w, h)) \div ScaleDen(w, h)
SmallH(w, h) == (h * ScaleNum(w, h)) \div ScaleDen(w, h)

(* cv2.resize asserts that the destination size is not empty *)
ResizeFails(w, h) == SmallW(w, h) = 0 \/ SmallH(w, h) = 0

(* The k values of the clustering passes, in the order they run *)
KValues == <<4, 6, 8>>

(* cv2.kmeans asserts N >= K: at least as many pixels as clusters *)
KMeansFails(w, h, k) == SmallW(w, h) * SmallH(w, h) < k

(* int(v / scale) for a coordinate v of the downscaled image *)
Upscale(v, w, h) == (v * ScaleDen(w, h)) \div ScaleNum(w, h)

----------------------------------------------------------------------------
(* _score_candidate.  real_area is cc_area / scale^2, given as cc_area;    *)
(* solidity and color_dist arrive in fixed point.                          *)

ShapeScore(ocw, och) ==
    IF ocw > 0 /\ och * 10 >= 13 * ocw THEN 10
    ELSE IF ocw > 0 /\ och * 10 >= 8 * ocw THEN 7
    ELSE IF ocw > 0 /\ och * 10 >= 5 * ocw THEN 4
    ELSE 1

(* 1.0 - abs(center_x - w / 2) / (w / 2), center_x = ox + ocw / 2 *)
HorizScore(ox, ocw, w) == Unit - (Unit * Abs(2 * ox + ocw - w)) \div w

(* mutant of VertScore: 0.6 and 0.3 the wrong way round *)
VertScoreSwapped(oy, och, h) ==
    IF 35 * 2 * h <= 100 * (2 * oy + och) /\ 100 * (2 * oy + och) <= 70 * 2 * h THEN 10
    ELSE IF 100 * (2 * oy + och) > 70 * 2 * h THEN 3
    ELSE 6

(* vert_center_ratio = (oy + och / 2) / h against 0.35 and 0.70 *)
VertScore(oy, och, h) ==
    IF 35 * 2 * h <= 100 * (2 * oy + och) /\ 100 * (2 * oy + och) <= 70 * 2 * h THEN 10
    ELSE IF 100 * (2 * oy + och) > 70 * 2 * h THEN 6
    ELSE 3

(* min(real_area / (w * h * 0.03), 1.0) *)
SizeScore(cc_area, w, h) ==
    LET den2 == ScaleDen(w, h) * ScaleDen(w, h)
        num2 == ScaleNum(w, h) * ScaleNum(w, h)
    IN  IF cc_area * den2 * 100 >= 3 * w * h * num2 THEN Unit
        ELSE ((cc_area * den2 * 100 * 1000) \div (3 * w * h * num2)) * 10

(* mutant of score_candidate: the hard filter on the bottom edge forgotten *)
score_candidate_no_bottom_filter(ox, oy, ocw, och, cc_area, solidity, color_dist, w, h) ==
    IF oy * 100 < 8 * h THEN 0
    ELSE ShapeScore(ocw, och) * 300
         + (HorizScore(ox, ocw, w) * 25) \div 100
         + VertScore(oy, och, h) * 150
         + SizeScore(cc_area, w, h) \div 10
         + color_dist \div 10
         + solidity \div 10

(* mutant of score_candidate: the hard filter on the top edge forgotten *)
score_candidate_no_top_filter(ox, oy, ocw, och, cc_area, solidity, color_dist, w, h) ==
    IF (oy + och) * 100 < 45 * h THEN 0
    ELSE ShapeScore(ocw, och) * 300
         + (HorizScore(ox, ocw, w) * 25) \div 100
         + VertScore(oy, och, h) * 150
         + SizeScore(cc_area, w, h) \div 10
         + color_dist \div 10
         + solidity \div 10

(* mutant of score_candidate: the second hard filter tests the bottom edge *)
(* again, where the top edge belongs                                       *)
score_candidate_top_filter_on_bottom(ox, oy, ocw, och, cc_area, solidity, color_dist, w, h) ==
    IF (oy + och) * 100 < 45 * h THEN 0
    ELSE IF (oy + och) * 100 < 8 * h THEN 0
    ELSE ShapeScore(ocw, och) * 300
         + (HorizScore(ox, ocw, w) * 25) \div 100
         + VertScore(oy, och, h) * 150
         + SizeScore(cc_area, w, h) \div 10
         + color_dist \div 10
         + solidity \div 10

score_candidate(ox, oy, ocw, och, cc_area, solidity, color_dist, w, h) ==
    IF (oy + och) * 100 < 45 * h THEN 0
    ELSE IF oy * 100 < 8 * h THEN 0
    ELSE ShapeScore(ocw, och) * 300
         + (HorizScore(ox, ocw, w) * 25) \div 100
         + VertScore(oy, och, h) * 150
         + SizeScore(cc_area, w, h) \div 10
         + color_dist \div 10
         + solidity \div 10

----------------------------------------------------------------------------
(* _find_door_regions, the loop body for one connected component cc =      *)
(* [x, y, cw, ch, area] (cv2 stats, downscaled pixels) of a non-dominant   *)
(* cluster with centroid colour cluster, the dominant centroid being dom.  *)

(* real_area < min_area or real_area > max_area, with real_area =          *)
(* cc_area / scale^2, min_area = w*h*0.01 and max_area = w*h*0.50          *)
AreaOutOfRange(cc, w, h) ==
    LET den2 == ScaleDen(w, h) * ScaleDen(w, h)
        num2 == ScaleNum(w, h) * ScaleNum(w, h)
    IN  \/ cc.area * den2 * 100 < w * h * num2
        \/ cc.area * den2 * 100 > 50 * w * h * num2

TooSmall(ocw, och) == ocw < 10 \/ och < 15

(* mutant of AspectRejected: one window, [1.1, 5.0], for every box *)
AspectRejectedOneWindow(oy, ocw, och, h) == och * 10 < 11 * ocw \/ och > 5 * ocw

(* the aspect window, wider for boxes whose bottom is below mid-height *)
AspectRejected(oy, ocw, och, h) ==
    IF (oy + och) * 100 > 50 * h
    THEN och * 10 < 4 * ocw \/ och > 5 * ocw
    ELSE och * 10 < 11 * ocw \/ och > 5 * ocw

(* solidity = cc_area / (cw * ch), in fixed point *)
Solidity(cc) ==
    IF cc.cw * cc.ch > 0 THEN ((cc.area * 1000) \div (cc.cw * cc.ch)) * 10 ELSE 0
SolidityRejected(cc) ==
    IF cc.cw * cc.ch > 0 THEN cc.area * 100 < 35 * cc.cw * cc.ch ELSE TRUE

(* np.linalg.norm(cluster_color - dominant_color), squared *)
NormSq(cluster, dom) ==
    (cluster[1] - dom[1]) * (cluster[1] - dom[1])
    + (cluster[2] - dom[2]) * (cluster[2] - dom[2])
    + (cluster[3] - dom[3]) * (cluster[3] - dom[3])

(* color_dist = norm / 255.0, in fixed point *)
ColorDist(cluster, dom) == (ISqrt(NormSq(cluster, dom) * Unit) * 100) \div 255

(* mutant of ColorRejected: the limit 0.01 in place of 0.10 *)
ColorRejectedBelowHundredth(cluster, dom) == NormSq(cluster, dom) * 10000 < 255 * 255

(* if color_dist < 0.10: continue *)
ColorRejected(cluster, dom) == NormSq(cluster, dom) * 100 < 255 * 255

(* TRUE when the component reaches _score_candidate *)
ComponentScored(cc, cluster, dom, w, h) ==
    LET oy  == Upscale(cc.y, w, h)
        ocw == Upscale(cc.cw, w, h)
        och == Upscale(cc.ch, w, h)
    IN  /\ ~AreaOutOfRange(cc, w, h)
        /\ ~TooSmall(ocw, och)
        /\ ~AspectRejected(oy, ocw, och, h)
        /\ ~SolidityRejected(cc)
        /\ ~ColorRejected(cluster, dom)

(* the tuple (ox, oy, ocw, och, score) appended for a scored component *)
ColourCandidate(cc, cluster, dom, w, h) ==
    LET ox  == Upscale(cc.x, w, h)
        oy  == Upscale(cc.y, w, h)
        ocw == Upscale(cc.cw, w, h)
        och == Upscale(cc.ch, w, h)
    IN  [x |-> ox, y |-> oy, w |-> ocw, h |-> och,
         score |-> score_candidate(ox, oy, ocw, och, cc.area, Solidity(cc),
                                   ColorDist(cluster, dom), w, h),
         src |-> "colour"]

(* what the loops over label_id and cc_id append for the component cc of   *)
(* the cluster label_id, centers being the centroid colours of the pass:   *)
(* nothing for the dominant cluster, which is skipped                      *)
ExamineResult(cc, label_id, dominant_label, centers, w, h) ==
    IF label_id = dominant_label THEN [scored |-> FALSE, appended |-> <<>>]
    ELSE IF ComponentScored(cc, centers[label_id], centers[dominant_label], w, h)
         THEN [scored |-> TRUE,
               appended |-> <<ColourCandidate(cc, centers[label_id],
                                              centers[dominant_label], w, h)>>]
         ELSE [scored |-> FALSE, appended |-> <<>>]

----------------------------------------------------------------------------
(* _add_line_candidates.  A segment is [x1, y1, x2, y2] as HoughLinesP     *)
(* returns it; a vertical is [cx2, top, bot] with cx2 = x1 + x2, twice the *)
(* cx of the code.                                                         *)

(* abs(degrees(arctan2(x2 - x1, y2 - y1))) < 15; tan(15 deg) = 0.267949... *)
NearVertical(s) ==
    LET dx == s.x2 - s.x1
        dy == s.y2 - s.y1
    IN  \/ dx = 0 /\ dy = 0
        \/ dy > 0 /\ Abs(dx) * 1000000 < 267949 * dy

Vertical(s) == [cx2 |-> s.x1 + s.x2, top |-> Min(s.y1, s.y2), bot |-> Max(s.y1, s.y2)]

RECURSIVE CollectVerticals(_)
CollectVerticals(lines) ==
    IF lines = <<>> THEN <<>>
    ELSE IF NearVertical(Head(lines))
         THEN <<Vertical(Head(lines))>> \o CollectVerticals(Tail(lines))
         ELSE CollectVerticals(Tail(lines))

(* list.sort(key=...) is stable: insert after the elements with key <= *)
RECURSIVE InsertByCx(_, _)
InsertByCx(v, sorted) ==
    IF sorted = <<>> THEN <<v>>
    ELSE IF Head(sorted).cx2 <= v.cx2
         THEN <<Head(sorted)>> \o InsertByCx(v, Tail(sorted))
         ELSE <<v>> \o sorted

RECURSIVE SortByCx(_)
SortByCx(vs) ==
    IF vs = <<>> THEN <<>>
    ELSE InsertByCx(vs[Len(vs)], SortByCx(SubSeq(vs, 1, Len(vs) - 1)))

(* mutant of PairAccepted: the upper aspect limit (aspect > 4.5) dropped *)
PairAcceptedNoAspectCap(l, r, w, h) ==
    LET gap2   == r.cx2 - l.cx2
        top    == Min(l.top, r.top)
        bot    == Max(l.bot, r.bot)
        height == bot - top
    IN  /\ ~(gap2 * 100 < 16 * w \/ gap2 * 100 > 90 * w)
        /\ ~(height * 4 < h)
        /\ ~(20 * height < 12 * gap2)
        /\ ~(gap2 * height * 100 < 2 * w * h)
        /\ ~(2 * bot < h)

(* the tests made on the pair (l, r) of verticals, l left of r *)
PairAccepted(l, r, w, h) ==
    LET gap2   == r.cx2 - l.cx2
        top    == Min(l.top, r.top)
        bot    == Max(l.bot, r.bot)
        height == bot - top
    IN  /\ ~(gap2 * 100 < 16 * w \/ gap2 * 100 > 90 * w)
        /\ ~(height * 4 < h)
        /\ ~(20 * height < 12 * gap2 \/ 20 * height > 45 * gap2)
        /\ ~(gap2 * height * 100 < 2 * w * h)
        /\ ~(2 * bot < h)

(* (int(lx), int(top), int(gap), int(height), score) *)
LineCandidate(l, r, w, h) ==
    LET gap2 == r.cx2 - l.cx2
        top  == Min(l.top, r.top)
        bot  == Max(l.bot, r.bot)
    IN  [x |-> l.cx2 \div 2, y |-> top, w |-> gap2 \div 2, h |-> bot - top,
         score |-> (4500 * bot) \div h
                   + (3500 * (2 * w - Abs(l.cx2 + r.cx2 - 2 * w))) \div (2 * w)
                   + 2000,
         src |-> "line"]

RECURSIVE PairsFrom(_, _, _, _, _)
PairsFrom(vs, i, j, w, h) ==
    IF i > Len(vs) THEN <<>>
    ELSE IF j > Len(vs) THEN PairsFrom(vs, i + 1, i + 2, w, h)
    ELSE (IF PairAccepted(vs[i], vs[j], w, h)
          THEN <<LineCandidate(vs[i], vs[j], w, h)>> ELSE <<>>)
         \o PairsFrom(vs, i, j + 1, w, h)

(* the candidates the function appends for the segments `lines` *)
add_line_candidates(lines, w, h) ==
    PairsFrom(SortByCx(CollectVerticals(lines)), 1, 2, w, h)

----------------------------------------------------------------------------
(* _find_door_regions, after the pool is built: sort, NMS, take the first  *)

(* candidates.sort(key=score, reverse=True): stable, equal scores keep     *)
(* the order in which they were appended                                   *)
(* mutant of InsertByScore: ascending order, reverse=True forgotten *)
RECURSIVE InsertByScoreAscending(_, _)
InsertByScoreAscending(c, sorted) ==
    IF sorted = <<>> THEN <<c>>
    ELSE IF Head(sorted).score <= c.score
         THEN <<Head(sorted)>> \o InsertByScoreAscending(c, Tail(sorted))
         ELSE <<c>> \o sorted

RECURSIVE InsertByScore(_, _)
InsertByScore(c, sorted) ==
    IF sorted = <<>> THEN <<c>>
    ELSE IF Head(sorted).score >= c.score
         THEN <<Head(sorted)>> \o InsertByScore(c, Tail(sorted))
         ELSE <<c>> \o sorted

(* mutant of SortByScore: the sort forgotten *)
SortByScoreNone(cs) == cs

RECURSIVE SortByScore(_)
SortByScore(cs) ==
    IF cs = <<>> THEN <<>>
    ELSE InsertByScore(cs[Len(cs)], SortByScore(SubSeq(cs, 1, Len(cs) - 1)))

Intersection(a, b) ==
    LET ix1 == Max(a.x, b.x)
        iy1 == Max(a.y, b.y)
        ix2 == Min(a.x + a.w, b.x + b.w)
        iy2 == Min(a.y + a.h, b.y + b.h)
    IN  IF ix2 > ix1 /\ iy2 > iy1 THEN (ix2 - ix1) * (iy2 - iy1) ELSE 0

(* mutant of Overlaps: >= 0.4 in place of > 0.4 *)
OverlapsAtLeast(a, b) ==
    /\ Intersection(a, b) > 0
    /\ Intersection(a, b) * 10 >= 4 * Min(a.w * a.h, b.w * b.h)

(* inter / smaller > 0.4 for boxes that intersect *)
Overlaps(a, b) ==
    /\ Intersection(a, b) > 0
    /\ Intersection(a, b) * 10 > 4 * Min(a.w * a.h, b.w * b.h)

RECURSIVE Nms(_, _)
Nms(sorted, kept) ==
    IF sorted = <<>> THEN kept
    ELSE IF \E i \in 1..Len(kept) : Overlaps(Head(sorted), kept[i])
         THEN Nms(Tail(sorted), kept)
         ELSE Nms(Tail(sorted), Append(kept, Head(sorted)))

(* inter / smaller is evaluated with smaller = 0 *)
DividesByZero(a, b) == Intersection(a, b) > 0 /\ Min(a.w * a.h, b.w * b.h) = 0

(* TRUE when the loop, run on `sorted` with `kept` already kept, reaches a *)
(* division by zero: on the first kept box, in order, that ends the inner  *)
(* loop of the candidate                                                   *)
RECURSIVE NmsDividesByZero(_, _)
NmsDividesByZero(sorted, kept) ==
    IF sorted = <<>> THEN FALSE
    ELSE IF \E i \in 1..Len(kept) :
                /\ DividesByZero(Head(sorted), kept[i])
                /\ \A j \in 1..(i - 1) : ~Overlaps(Head(sorted), kept[j])
         THEN TRUE
         ELSE IF \E i \in 1..Len(kept) : Overlaps(Head(sorted), kept[i])
              THEN NmsDividesByZero(Tail(sorted), kept)
              ELSE NmsDividesByZero(Tail(sorted), Append(kept, Head(sorted)))

(* mutant of TakeBest: return kept, the slice forgotten *)
TakeAll(kept) == kept

(* return kept[:1] *)
TakeBest(kept) == IF kept = <<>> THEN <<>> ELSE <<kept[1]>>

SuppressedRegions(pool) == TakeBest(Nms(SortByScore(pool), <<>>))

----------------------------------------------------------------------------
(* detect_doors, the loop over the returned regions *)

(* round(v, 2) of a fixed point value, to hundredths (ties to even) *)
Round2(v) ==
    LET q == v \div 100
        r == v % 100
    IN  IF r > 50 THEN q + 1
        ELSE IF r < 50 THEN q
        ELSE IF q % 2 = 0 THEN q ELSE q + 1

(* mutant of BelowThreshold: the threshold put on the scaled confidence *)
BelowThresholdScaled(score) == Round2(Min((score * 12) \div 10, 9900)) < 62

(* if score < 0.62: continue *)
BelowThreshold(score) == score < 6200

(* mutant of Confidence: the cap min(..., 0.99) forgotten *)
ConfidenceUncapped(score) == Round2((score * 12) \div 10)

(* round(min(score * 1.2, 0.99), 2), in hundredths *)
Confidence(score) == Round2(Min((score * 12) \div 10, 9900))

(* x = max(0, x); y = max(0, y); cw = min(cw, orig_w - x); ch = min(ch, orig_h - y) *)
Clamp(r, w, h) ==
    LET x == Max(0, r.x)
        y == Max(0, r.y)
    IN  [x |-> x, y |-> y, w |-> Min(r.w, w - x), h |-> Min(r.h, h - y)]

(* mutant of TooLarge: the height test forgotten *)
TooLargeAreaOnly(b, w, h) == b.w * b.h * 10 > 3 * w * h

(* area_ratio > 0.30 or height_ratio > 0.55 *)
TooLarge(b, w, h) == b.w * b.h * 10 > 3 * w * h \/ b.h * 100 > 55 * h

(* mutant of BBox: width and height written where the far corner belongs *)
BBoxWidthAsMax(b) == [xmin |-> b.x, ymin |-> b.y, xmax |-> b.w, ymax |-> b.h]

BBox(b) == [xmin |-> b.x, ymin |-> b.y, xmax |-> b.x + b.w, ymax |-> b.y + b.h]

Detection(i, r, w, h) ==
    [id |-> i, label |-> "Entrance", confidence |-> Confidence(r.score),
     bbox |-> BBox(Clamp(r, w, h))]

RECURSIVE FilterFrom(_, _, _, _)
FilterFrom(rs, i, w, h) ==
    IF i > Len(rs) THEN <<>>
    ELSE (IF BelowThreshold(rs[i].score) \/ TooLarge(Clamp(rs[i], w, h), w, h)
          THEN <<>> ELSE <<Detection(i - 1, rs[i], w, h)>>)
         \o FilterFrom(rs, i + 1, w, h)

FilterRegions(rs, w, h) == FilterFrom(rs, 1, w, h)

(* the dict detect_doors returns (processing_time_ms, a clock reading, is  *)
(* left out)                                                               *)
DetectionResult(rs, w, h) ==
    [image_width |-> w, image_height |-> h, detections |-> FilterRegions(rs, w, h)]

NoResult == [image_width |-> 0, image_height |-> 0, detections |-> <<>>]

----------------------------------------------------------------------------
(* detect_entrances: the except clauses around detect_doors *)

(* mutant of StatusOf: one except clause for every exception *)
StatusAlways400(e) == 400

StatusOf(e) == IF e = "ValueError" THEN 400 ELSE 500

(* the exception classes the detectors raise: all derive from Exception *)
ExceptionClasses == {"ValueError", "RuntimeError"}

(* mutant of CaughtByExceptException: the clause lets a ValueError through *)
CaughtUnlessValueError(e) == e \in ExceptionClasses \ {"ValueError"}

(* except Exception as e: around run_detection and around segment_scene *)
CaughtByExceptException(e) == e \in ExceptionClasses

----------------------------------------------------------------------------
(* main.py: _iou_overlap and _merge_all *)

(* coco_result = None *)
None == [none |-> TRUE]

(* no response body: the request is running, or was answered with an error *)
NoResponse == [body |-> "none"]

(* inter / area > threshold, the threshold given as num / den; the area is *)
(* that of the first box                                                   *)
iou_overlap(bx, kx, num, den) ==
    LET ix1 == Max(bx.xmin, kx.xmin)
        iy1 == Max(bx.ymin, kx.ymin)
        ix2 == Min(bx.xmax, kx.xmax)
        iy2 == Min(bx.ymax, kx.ymax)
        inter == (ix2 - ix1) * (iy2 - iy1)
        area == (bx.xmax - bx.xmin) * (bx.ymax - bx.ymin)
    IN  IF ix2 <= ix1 \/ iy2 <= iy1 THEN FALSE
        ELSE area > 0 /\ inter * den > num * area

(* (coco_result or {}).get("detections", []) *)
DetectionsOf(r) == IF r = None THEN <<>> ELSE r.detections

(* the detections of ds that overlap none of the boxes *)
NotOverlapping(ds, boxes, num, den) ==
    SelectSeq(ds, LAMBDA d :
        ~ \E i \in 1..Len(boxes) : iou_overlap(d.bbox, boxes[i], num, den))

(* d["id"] = f"det_{idx}" in the order of appending; the id det_n is n *)
Renumbered(ds) == [i \in 1..Len(ds) |-> [ds[i] EXCEPT !.id = i - 1]]

(* _merge_all: doors, then the COCO detections that do not overlap a door  *)
(* box by more than 0.5, then the scene detections that do not by more     *)
(* than 0.6 (processing_time_ms, a sum of clock readings, is left out)     *)
merge_all(door_result, coco, scene) ==
    LET doors == door_result.detections
        existing_boxes == [i \in 1..Len(doors) |-> doors[i].bbox]
        all_dets == doors
                    \o NotOverlapping(DetectionsOf(coco), existing_boxes, 1, 2)
                    \o NotOverlapping(scene, existing_boxes, 3, 5)
    IN  [image_width |-> door_result.image_width,
         image_height |-> door_result.image_height,
         detections |-> Renumbered(all_dets)]

----------------------------------------------------------------------------
(* Inputs.  Uploads: every combination of content type, length and decoded *)
(* size; size <<0, 0>> stands for bytes cv2.imdecode cannot decode.        *)

ImageSizes == {<<1, 1>>, <<2, 3>>, <<400, 1>>, <<6, 21>>, <<96, 96>>, <<400, 600>>}

Uploads ==
    {f \in {[image_type |-> t, len |-> n, w |-> sz[1], h |-> sz[2]] :
                t \in BOOLEAN, n \in {0, 1}, sz \in ImageSizes \cup {<<0, 0>>}} :
        f.len = 0 => f.w = 0}

(* Connected components cv2 can report in the sw x sh image: boxes on a    *)
(* grid of eighths of the width and twelfths of the height,                *)
(* <<left, width, top, height>>, filled fully or to a quarter.             *)
BoxShapes ==
    {<<3, 2, 7, 4>>, <<1, 2, 7, 4>>, <<5, 2, 7, 4>>, <<3, 2, 1, 7>>, <<3, 2, 1, 4>>,
     <<3, 2, 0, 6>>, <<3, 5, 7, 3>>, <<0, 8, 7, 4>>, <<3, 1, 7, 1>>, <<1, 6, 5, 6>>}

Components(w, h) ==
    LET sw == SmallW(w, h)
        sh == SmallH(w, h)
        Box(b) == [x |-> (b[1] * sw) \div 8, cw |-> (b[2] * sw) \div 8,
                   y |-> (b[3] * sh) \div 12, ch |-> (b[4] * sh) \div 12]
    IN  {[x |-> Box(b).x, y |-> Box(b).y, cw |-> Box(b).cw, ch |-> Box(b).ch,
          area |-> (Box(b).cw * Box(b).ch) \div d] :
            b \in {c \in BoxShapes : Box(c).cw >= 1 /\ Box(c).ch >= 1}, d \in {1, 4}}

(* Cluster centroids (B, G, R) *)
ClusterColours == {<<12, 12, 12>>, <<255, 255, 255>>}
DominantColours == {<<0, 0, 0>>}

(* cv2.HoughLinesP(threshold=40, minLineLength=int(h*0.3)): a segment lies *)
(* in the image, is at least minLineLength long in x or in y, and its line *)
(* got more than 40 votes, each from one edge pixel of a band one pixel    *)
(* wide, which holds at most two pixels per row or per column.             *)
HoughThreshold == 40

(* segments on the same grid, <<x1, x2, y1, y2, dx>>: dx more pixels on x2 *)
SegmentShapes ==
    {<<5, 5, 7, 11, 0>>, <<2, 2, 7, 11, 0>>, <<3, 3, 5, 11, 1>>, <<3, 3, 11, 7, 0>>,
     <<3, 3, 7, 11, 0>>,
     <<6, 6, 0, 6, 0>>, <<7, 7, 1, 5, 0>>, <<5, 5, 1, 5, 0>>}

HoughSegments(w, h) ==
    IF 2 * Max(w, h) <= HoughThreshold THEN {}
    ELSE {s \in {[x1 |-> (g[1] * w) \div 8, x2 |-> ((g[2] * w) \div 8) + g[5],
                  y1 |-> (g[3] * h) \div 12, y2 |-> (g[4] * h) \div 12] : g \in SegmentShapes} :
            /\ s.x1 < w /\ s.x2 < w /\ s.y1 < h /\ s.y2 < h
            /\ \/ Abs(s.x2 - s.x1) >= (3 * h) \div 10
               \/ Abs(s.y2 - s.y1) >= (3 * h) \div 10}

RECURSIVE SeqsUpTo(_, _)
SeqsUpTo(S, n) ==
    IF n = 0 THEN {<<>>}
    ELSE SeqsUpTo(S, n - 1) \cup {Append(q, e) : q \in SeqsUpTo(S, n - 1), e \in S}

(* the possible values of `lines` (None is the empty sequence) *)
HoughLinesP(w, h) == SeqsUpTo(HoughSegments(w, h), MaxLines)

(* What run_detection can return for a w x h image: the dict with one     *)
(* detection, a person standing in the lower middle of the image.          *)
CocoResults(w, h) ==
    {[image_width |-> w, image_height |-> h,
      detections |-> <<[id |-> 0, label |-> "Person", confidence |-> 90 * 100,
                        bbox |-> [xmin |-> (3 * w) \div 8, ymin |-> (7 * h) \div 12,
                                  xmax |-> (5 * w) \div 8, ymax |-> (11 * h) \div 12]]>>]}

(* What segment_scene can return: one region, a strip of sidewalk across   *)
(* the lower middle of the image.                                          *)
SceneResults(w, h) ==
    {<<[id |-> 0, label |-> "Sidewalk", confidence |-> 80 * 100,
        bbox |-> [xmin |-> (3 * w) \div 8, ymin |-> (3 * h) \div 4,
                  xmax |-> (5 * w) \div 8, ymax |-> (11 * h) \div 12]]>>}

(* no helper call recorded *)
NoCall == [fn |-> "none"]

----------------------------------------------------------------------------
(* The request: POST /detect with one upload *)

Init ==
    /\ pc = "request"
    /\ file \in Uploads
    /\ kidx = 1
    /\ candidates = <<>>
    /\ regions = <<>>
    /\ result = NoResult
    /\ exc = "none"
    /\ status = 0
    /\ ran = <<>>
    /\ coco_result = None
    /\ scene_dets = <<>>
    /\ warnings = <<>>
    /\ response = NoResponse
    /\ detector = None
    /\ attempts = 0
    /\ loads = 0
    /\ returns = <<>>
    /\ call = NoCall

(* detect_entrances up to the call of detect_doors: content type, read, length *)
ValidateUpload ==
    /\ pc = "request"
    /\ \E readFails \in BOOLEAN :
          IF UploadRejected(file, readFails) # ""
          THEN status' = 400 /\ pc' = "done" /\ ran' = ran
          ELSE status' = status /\ pc' = "decode" /\ ran' = <<"detect_doors">>
    /\ UNCHANGED <<loader, handler, call, file, kidx, candidates, regions, result, exc>>

(* detect_doors: img, orig_w, orig_h = _decode_image(image_bytes) *)
decode_image ==
    /\ pc = "decode"
    /\ IF Decodes(file)
       THEN pc' = "resize" /\ exc' = exc
       ELSE pc' = "raised" /\ exc' = "ValueError"
    /\ UNCHANGED <<loader, handler, ran, call, file, kidx, candidates, regions, result, status>>

(* _find_door_regions: cv2.resize to the downscaled size *)
Resize ==
    /\ pc = "resize"
    /\ IF ResizeFails(file.w, file.h)
       THEN pc' = "raised" /\ exc' = "cv2.error"
       ELSE pc' = "kmeans" /\ exc' = exc
    /\ UNCHANGED <<loader, handler, ran, call, file, kidx, candidates, regions, result, status>>

(* one cv2.kmeans call of the loop for k in [4, 6, 8] *)
KMeans ==
    /\ pc = "kmeans"
    /\ IF KMeansFails(file.w, file.h, KValues[kidx])
       THEN pc' = "raised" /\ exc' = "cv2.error"
       ELSE pc' = "components" /\ exc' = exc
    /\ UNCHANGED <<loader, handler, ran, call, file, kidx, candidates, regions, result, status>>

(* the loop body for one connected component of one non-dominant cluster *)
ExamineComponent ==
    /\ pc = "components"
    /\ Len(candidates) < MaxCandidates
    /\ \E cc \in Components(file.w, file.h), cluster \in ClusterColours,
          dom \in DominantColours :
          candidates' =
              IF ComponentScored(cc, cluster, dom, file.w, file.h)
              THEN Append(candidates, ColourCandidate(cc, cluster, dom, file.w, file.h))
              ELSE candidates
    /\ UNCHANGED <<loader, handler, ran, call, pc, file, kidx, regions, result, exc, status>>

(* the clusters of this k are exhausted: next k, or on to the line detector *)
EndPass ==
    /\ pc = "components"
    /\ IF kidx < Len(KValues)
       THEN kidx' = kidx + 1 /\ pc' = "kmeans"
       ELSE kidx' = kidx /\ pc' = "lines"
    /\ UNCHANGED <<loader, handler, ran, call, file, candidates, regions, result, exc, status>>

(* _add_line_candidates(img, candidates, w, h, min_area) *)
AddLineCandidates ==
    /\ pc = "lines"
    /\ \E lines \in HoughLinesP(file.w, file.h) :
          /\ Len(candidates) + Len(add_line_candidates(lines, file.w, file.h)) <= MaxPool
          /\ candidates' = candidates \o add_line_candidates(lines, file.w, file.h)
    /\ pc' = "suppress"
    /\ UNCHANGED <<loader, handler, ran, call, file, kidx, regions, result, exc, status>>

(* sort, NMS and kept[:1]: _find_door_regions returns *)
Suppress ==
    /\ pc = "suppress"
    /\ regions' = SuppressedRegions(candidates)
    /\ pc' = "filter"
    /\ UNCHANGED <<loader, handler, ran, call, file, kidx, candidates, result, exc, status>>

(* detect_doors: the loop over regions, and the return *)
ReturnResult ==
    /\ pc = "filter"
    /\ result' = DetectionResult(regions, file.w, file.h)
    /\ pc' = "returned"
    /\ UNCHANGED <<loader, handler, ran, call, file, kidx, candidates, regions, exc, status>>

(* detect_entrances: coco_result = None, then run_detection in its try *)
RunDetection ==
    /\ pc = "returned"
    /\ ran' = Append(ran, "run_detection")
    /\ \/ \E r \in CocoResults(file.w, file.h) :
             /\ coco_result' = r
             /\ pc' = "scene"
             /\ UNCHANGED <<warnings, exc>>
       \/ \E e \in ExceptionClasses :
             IF CaughtByExceptException(e)
             THEN /\ warnings' = Append(warnings, "COCO detection skipped")
                  /\ pc' = "scene"
                  /\ UNCHANGED <<coco_result, exc>>
             ELSE /\ exc' = e
                  /\ pc' = "raised"
                  /\ UNCHANGED <<coco_result, warnings>>
    /\ UNCHANGED <<loader, scene_dets, response, call, file, kidx, candidates, regions,
                   result, status>>

(* detect_entrances: scene_dets = [], then segment_scene in its try *)
SegmentScene ==
    /\ pc = "scene"
    /\ ran' = Append(ran, "segment_scene")
    /\ \/ \E r \in SceneResults(file.w, file.h) :
             /\ scene_dets' = r
             /\ pc' = "merge"
             /\ UNCHANGED <<warnings, exc>>
       \/ \E e \in ExceptionClasses :
             IF CaughtByExceptException(e)
             THEN /\ warnings' = Append(warnings, "Scene segmentation skipped")
                  /\ pc' = "merge"
                  /\ UNCHANGED <<scene_dets, exc>>
             ELSE /\ exc' = e
                  /\ pc' = "raised"
                  /\ UNCHANGED <<scene_dets, warnings>>
    /\ UNCHANGED <<loader, coco_result, response, call, file, kidx, candidates, regions,
                   result, status>>

(* detect_entrances: return _merge_all(door_result, coco_result, scene_dets) *)
Respond ==
    /\ pc = "merge"
    /\ response' = merge_all(result, coco_result, scene_dets)
    /\ status' = 200
    /\ pc' = "done"
    /\ UNCHANGED <<loader, coco_result, scene_dets, warnings, ran, call, file, kidx,
                   candidates, regions, result, exc>>

(* detect_entrances: except ValueError -> 400, except Exception -> 500 *)
HandleException ==
    /\ pc = "raised"
    /\ status' = StatusOf(exc)
    /\ pc' = "done"
    /\ UNCHANGED <<loader, handler, ran, call, file, kidx, candidates, regions, result, exc>>

Next ==
    \/ ValidateUpload
    \/ decode_image
    \/ Resize
    \/ KMeans
    \/ ExamineComponent
    \/ EndPass
    \/ AddLineCandidates
    \/ Suppress
    \/ ReturnResult
    \/ RunDetection
    \/ SegmentScene
    \/ Respond
    \/ HandleException

Spec == Init /\ [][Next]_vars

----------------------------------------------------------------------------
(* The helpers called on their own.  FunctionSpec applies one helper of     *)
(* door_detection.py to arguments drawn from the sets below, for an image  *)
(* of each size, and records the call: one call in each behaviour.         *)

(* Arguments of _score_candidate for a w x h image: boxes on a grid of     *)
(* eighths of the width and twentieths of the height, with the top edge    *)
(* also just above and just below 0.08 * h; the component fills the box or *)
(* a tenth of it.                                                          *)
ScoreArguments(w, h) ==
    LET num2 == ScaleNum(w, h) * ScaleNum(w, h)
        den2 == ScaleDen(w, h) * ScaleDen(w, h)
        top8 == (8 * h + 99) \div 100
    IN  {[ox |-> (bx * w) \div 8, oy |-> oy, ocw |-> (bw * w) \div 8, och |-> (bh * h) \div 20,
          cc_area |-> ((((bw * w) \div 8) * ((bh * h) \div 20) * num2) \div den2) \div d,
          solidity |-> sol, color_dist |-> cd] :
            bx \in {0, 1, 3}, bw \in {0, 1, 2, 5}, bh \in {1, 2, 4, 7, 10},
            oy \in {(by * h) \div 20 : by \in {0, 2, 5, 9, 12}} \cup {top8, Max(0, top8 - 1)},
            d \in {1, 10}, sol \in {3500, Unit}, cd \in {1000, 17320}}

(* Candidate tuples for the suppression on its own: boxes that overlap a   *)
(* first one by a half, by exactly 0.4, fully, or not at all, boxes of     *)
(* width or area 0, and equal scores.                                      *)
NmsCandidates ==
    {[x |-> t[1], y |-> t[2], w |-> t[3], h |-> t[4], score |-> t[5], src |-> "colour"] :
        t \in {<<0, 0, 10, 10, 9000>>, <<5, 0, 10, 10, 8000>>, <<6, 0, 10, 10, 7000>>,
               <<2, 2, 4, 4, 8000>>, <<0, 0, 0, 10, 9500>>, <<3, 3, 0, 0, 9000>>,
               <<20, 20, 5, 5, 1000>>}}

NmsPools == SeqsUpTo(NmsCandidates, MaxPool)

(* Components for the loop body on its own, in the sw x sh image: boxes on *)
(* the grid of eighths and twelfths filled to 1, 1/2, 1/3 or 1/4, and      *)
(* boxes <<x, y, cw, ch, area>> that sit on the limits of the filters      *)
(* (width 10, height 15, solidity 0.35, aspect 0.4, 1.1 and 5.0, area 1%   *)
(* and 50% of an image) or one pixel off them.                             *)
LimitComponents ==
    {<<40, 60, 10, 15, 150>>, <<40, 60, 9, 15, 135>>, <<40, 60, 10, 14, 140>>,
     <<30, 40, 20, 50, 350>>, <<30, 40, 20, 50, 349>>,
     <<40, 40, 10, 50, 500>>, <<40, 40, 10, 51, 510>>,
     <<30, 8, 20, 22, 440>>, <<30, 8, 20, 21, 420>>, <<30, 26, 20, 22, 440>>,
     <<20, 60, 50, 20, 1000>>, <<20, 60, 51, 20, 1020>>,
     <<0, 40, 96, 48, 4608>>, <<0, 40, 96, 49, 4704>>,
     <<90, 200, 20, 30, 600>>, <<90, 200, 20, 30, 599>>}

CallComponents(w, h) ==
    LET sw == SmallW(w, h)
        sh == SmallH(w, h)
    IN  {cc \in {[x |-> (bx * sw) \div 8, cw |-> (bw * sw) \div 8,
                  y |-> (by * sh) \div 12, ch |-> (bh * sh) \div 12,
                  area |-> (((bw * sw) \div 8) * ((bh * sh) \div 12)) \div d] :
                    bx \in {0, 3}, bw \in {1, 2, 5, 8}, by \in {0, 1, 2, 5, 7},
                    bh \in {1, 3, 4, 7, 12}, d \in 1..4}
                \cup {[x |-> t[1], y |-> t[2], cw |-> t[3], ch |-> t[4], area |-> t[5]] :
                         t \in LimitComponents} :
            /\ cc.cw >= 1 /\ cc.ch >= 1 /\ cc.area >= 1
            /\ cc.x + cc.cw <= sw /\ cc.y + cc.ch <= sh}

(* centroid colours of a pass, by label, and the labels that can be the    *)
(* dominant one                                                            *)
Centers == <<<<0, 0, 0>>, <<12, 12, 12>>, <<255, 255, 255>>>>
DominantLabels == {1, 3}

FunctionInit ==
    /\ pc = "call"
    /\ file \in {f \in Uploads : f.image_type /\ f.len > 0 /\ Decodes(f)}
    /\ kidx = 1
    /\ candidates = <<>>
    /\ regions = <<>>
    /\ result = NoResult
    /\ exc = "none"
    /\ status = 0
    /\ ran = <<>>
    /\ coco_result = None
    /\ scene_dets = <<>>
    /\ warnings = <<>>
    /\ response = NoResponse
    /\ detector = None
    /\ attempts = 0
    /\ loads = 0
    /\ returns = <<>>
    /\ call = NoCall

(* score = _score_candidate(ox, oy, ocw, och, real_area, solidity, color_dist, w, h) *)
CallScoreCandidate ==
    /\ pc = "call"
    /\ \E a \in ScoreArguments(file.w, file.h) :
          call' = [fn |-> "_score_candidate", args |-> a,
                   ret |-> score_candidate(a.ox, a.oy, a.ocw, a.och, a.cc_area,
                                           a.solidity, a.color_dist, file.w, file.h)]
    /\ pc' = "called"
    /\ UNCHANGED <<loader, handler, ran, file, kidx, candidates, regions, result, exc, status>>

(* the sort and the NMS loop of _find_door_regions on a pool *)
CallSuppress ==
    /\ pc = "call"
    /\ \E pool \in NmsPools :
          call' = [fn |-> "nms", args |-> pool,
                   ret |-> [sorted |-> SortByScore(pool),
                            kept |-> Nms(SortByScore(pool), <<>>),
                            zero_division |-> NmsDividesByZero(SortByScore(pool), <<>>)]]
    /\ pc' = "called"
    /\ UNCHANGED <<loader, handler, ran, file, kidx, candidates, regions, result, exc, status>>

(* the body of the loops over label_id and cc_id for one component *)
CallExamineComponent ==
    /\ pc = "call"
    /\ \E cc \in CallComponents(file.w, file.h), label_id \in 1..Len(Centers),
          dominant_label \in DominantLabels :
          call' = [fn |-> "component",
                   args |-> [cc |-> cc, label_id |-> label_id,
                             dominant_label |-> dominant_label],
                   ret |-> ExamineResult(cc, label_id, dominant_label, Centers,
                                         file.w, file.h)]
    /\ pc' = "called"
    /\ UNCHANGED <<loader, handler, ran, file, kidx, candidates, regions, result, exc, status>>

(* _add_line_candidates on the segments HoughLinesP returned, the pool     *)
(* being empty before                                                      *)
CallAddLineCandidates ==
    /\ pc = "call"
    /\ \E lines \in HoughLinesP(file.w, file.h) :
          call' = [fn |-> "_add_line_candidates", args |-> lines,
                   ret |-> add_line_candidates(lines, file.w, file.h)]
    /\ pc' = "called"
    /\ UNCHANGED <<loader, handler, ran, file, kidx, candidates, regions, result, exc, status>>

FunctionNext ==
    \/ CallScoreCandidate
    \/ CallAddLineCandidates
    \/ CallExamineComponent
    \/ CallSuppress

FunctionSpec == FunctionInit /\ [][FunctionNext]_vars

----------------------------------------------------------------------------
(* model_loader.py: load_model and the process that calls it.  LoaderSpec  *)
(* is one server process: the lifespan hook calls load_model at startup,   *)
(* then every request that reaches run_detection calls it again.  The      *)
(* handler is a coroutine that never awaits between these calls, so the    *)
(* calls happen one after the other.                                       *)

(* the call raised *)
Raised == [raised |-> TRUE]

(* What one call finds: whether models/entrance_model.h5 exists, whether   *)
(* tf.keras loads it, and for each of the two hub models whether hub.load  *)
(* raises or which of the signatures the loaded model has.                 *)
PrimaryOutcomes == {"serving_default", "neither", "raises"}
FallbackOutcomes == {"serving_default", "default", "neither", "raises"}

LoadEnvironments ==
    [custom_exists : BOOLEAN, keras_loads : BOOLEAN,
     primary : PrimaryOutcomes, fallback : FallbackOutcomes]

(* the tuple (type, model); the model object made by the k-th underlying   *)
(* load is k                                                               *)
DetectorPair(type, k) == [type |-> type, model |-> k]

(* what a call does: its return, the new _detector, the underlying loads   *)
(* it started and those that returned a model                              *)
LoadOutcome(ret, d, started, loaded) ==
    [ret |-> ret, detector |-> d, started |-> started, loaded |-> loaded]

(* load_model, called with _detector = d after n underlying loads *)
load_model(d, env, n) ==
    IF d # None THEN LoadOutcome(d, d, 0, 0)
    ELSE IF env.custom_exists
    THEN IF env.keras_loads
         THEN LoadOutcome(DetectorPair("keras", n + 1), DetectorPair("keras", n + 1), 1, 1)
         ELSE LoadOutcome(Raised, None, 1, 0)
    ELSE IF env.primary = "serving_default"
    THEN LoadOutcome(DetectorPair("tfhub", n + 1), DetectorPair("tfhub", n + 1), 1, 1)
    ELSE LET first == IF env.primary = "neither" THEN 1 ELSE 0
         IN  CASE env.fallback = "raises" ->
                    LoadOutcome(Raised, None, 2, first)
               [] env.fallback = "serving_default" ->
                    LoadOutcome(DetectorPair("tfhub", n + 2), DetectorPair("tfhub", n + 2),
                                2, first + 1)
               [] env.fallback = "default" ->
                    LoadOutcome(DetectorPair("tfhub", n + 3), DetectorPair("tfhub", n + 3),
                                3, first + 2)
               [] env.fallback = "neither" ->
                    LoadOutcome(Raised, None, 3, first + 2)

(* one call of load_model in environment env *)
CallLoadModel(env) ==
    LET r == load_model(detector, env, attempts)
    IN  /\ detector' = r.detector
        /\ attempts' = attempts + r.started
        /\ loads' = loads + r.loaded
        /\ returns' = Append(returns, r.ret)

LoaderInit ==
    /\ pc = "startup"
    /\ file = [image_type |-> TRUE, len |-> 1, w |-> 96, h |-> 96]
    /\ kidx = 1
    /\ candidates = <<>>
    /\ regions = <<>>
    /\ result = NoResult
    /\ exc = "none"
    /\ status = 0
    /\ ran = <<>>
    /\ coco_result = None
    /\ scene_dets = <<>>
    /\ warnings = <<>>
    /\ response = NoResponse
    /\ detector = None
    /\ attempts = 0
    /\ loads = 0
    /\ returns = <<>>
    /\ call = NoCall

(* main.py lifespan: load_model() in a try whose except only logs *)
Lifespan ==
    /\ pc = "startup"
    /\ \E env \in LoadEnvironments : CallLoadModel(env)
    /\ pc' = "serving"
    /\ UNCHANGED <<handler, ran, call, file, kidx, candidates, regions, result,
                   exc, status>>

(* run_detection of one request: detector_type, detector = load_model() *)
LoadForRequest ==
    /\ pc = "serving"
    /\ Len(returns) < MaxCalls
    /\ \E env \in LoadEnvironments : CallLoadModel(env)
    /\ UNCHANGED <<handler, ran, call, pc, file, kidx, candidates, regions,
                   result, exc, status>>

LoaderNext ==
    \/ Lifespan
    \/ LoadForRequest

LoaderSpec == LoaderInit /\ [][LoaderNext]_vars

----------------------------------------------------------------------------
(* Properties of detect_doors *)

Returned ==
    pc \in {"returned", "scene", "merge", "done"} /\ exc = "none" /\ status # 400

Detections == result.detections

(* C1: whatever the image and the pool of colour and line candidates, the  *)
(* result of detect_doors holds at most one detection.                     *)
C1_AtMostOneDetection == Len(Detections) <= 1

(* two candidates survived the suppression, both good enough to be         *)
(* detections, and one detection was returned                              *)
C1_Witness ==
    /\ Returned
    /\ Len(Nms(SortByScore(candidates), <<>>)) >= 2
    /\ Len(FilterRegions(Nms(SortByScore(candidates), <<>>), file.w, file.h)) >= 2
    /\ Len(Detections) = 1

(* C2: every returned box is non-degenerate and lies in the image:         *)
(* 0 <= xmin < xmax <= image_width and 0 <= ymin < ymax <= image_height.   *)
C2_BoxInsideImage ==
    \A i \in 1..Len(Detections) :
        LET b == Detections[i].bbox
        IN  /\ 0 <= b.xmin /\ b.xmin < b.xmax /\ b.xmax <= result.image_width
            /\ 0 <= b.ymin /\ b.ymin < b.ymax /\ b.ymax <= result.image_height

(* a detection made of a line pair in a very small image, and the pair of  *)
(* verticals half a pixel apart was among the lines                        *)
C2_Witness ==
    /\ Returned
    /\ file.w = 6
    /\ Len(Detections) = 1
    /\ regions[1].src = "line"
    /\ Detections[1].bbox.xmax - Detections[1].bbox.xmin <= 2

(* C3: every returned confidence is min(score * 1.2, 0.99) rounded to two  *)
(* decimals (the nearest hundredth), and lies in [0, 0.99].                *)
C3_ConfidenceScaledAndCapped ==
    Returned =>
        \A i \in 1..Len(Detections) :
            LET c == Detections[i].confidence
                v == IF regions[i].score * 12 <= 99 * 1000
                     THEN (regions[i].score * 12) \div 10 ELSE 99 * 100
            IN  /\ 0 <= c /\ c <= 99
                /\ Abs(c * 100 - v) <= 50

(* a score above 1.0 reached the filter and was capped to 0.99 *)
C3_Witness ==
    /\ Returned
    /\ Len(Detections) = 1
    /\ regions[1].score > Unit
    /\ Detections[1].confidence = 99

(* C4: no returned box covers more than 30% of the image or is higher than *)
(* 55% of it; a kept candidate over either limit yields no detection.      *)
C4_NotTooLarge ==
    Returned =>
        /\ \A i \in 1..Len(Detections) :
              LET b == Detections[i].bbox
              IN  /\ (b.xmax - b.xmin) * (b.ymax - b.ymin) * 10
                        <= 3 * result.image_width * result.image_height
                  /\ (b.ymax - b.ymin) * 100 <= 55 * result.image_height
        /\ \A i \in 1..Len(regions) :
              LET cw == Min(regions[i].w, file.w - Max(0, regions[i].x))
                  ch == Min(regions[i].h, file.h - Max(0, regions[i].y))
              IN  (cw * ch * 10 > 3 * file.w * file.h \/ ch * 100 > 55 * file.h)
                      => Detections = <<>>

(* the best candidate scored at least 0.62, is no larger than 30% of the   *)
(* image but higher than 55% of it, and nothing was returned               *)
C4_Witness ==
    /\ Returned
    /\ Len(regions) = 1
    /\ regions[1].score >= 6200
    /\ regions[1].w * regions[1].h * 10 <= 3 * file.w * file.h
    /\ regions[1].h * 100 > 55 * file.h
    /\ Detections = <<>>

(* C5: no returned box has its bottom edge above 0.45 * image_height.      *)
C5_BottomNotInUpperPart ==
    \A i \in 1..Len(Detections) :
        Detections[i].bbox.ymax * 100 >= 45 * result.image_height

(* the only candidate was a colour region ending above 0.45 * H: it was    *)
(* scored 0 and dropped                                                    *)
C5_Witness ==
    /\ Returned
    /\ Len(candidates) = 1
    /\ candidates[1].src = "colour"
    /\ (candidates[1].y + candidates[1].h) * 100 < 45 * file.h
    /\ regions = candidates
    /\ Detections = <<>>

(* the kept candidate, clamped to the image, is over one of the size limits *)
RegionTooLarge(r) ==
    LET cw == Min(r.w, file.w - Max(0, r.x))
        ch == Min(r.h, file.h - Max(0, r.y))
    IN  cw * ch * 10 > 3 * file.w * file.h \/ ch * 100 > 55 * file.h

(* min(score * 1.2, 0.99) rounded to two decimals, in hundredths *)
ScaledConfidence(score) ==
    LET v == IF score * 12 <= 99 * 1000 THEN (score * 12) \div 10 ELSE 99 * 100
    IN  IF v % 100 > 50 \/ (v % 100 = 50 /\ (v \div 100) % 2 = 1)
        THEN (v \div 100) + 1 ELSE v \div 100

(* C6, as claimed: the kept candidate is dropped exactly when its scaled   *)
(* confidence is below 0.62 or it is over a size limit, and emitted        *)
(* otherwise.                                                              *)
C6_DropsOnScaledConfidence ==
    (Returned /\ regions # <<>>) =>
        (Detections = <<>>
            <=> (ScaledConfidence(regions[1].score) < 62 \/ RegionTooLarge(regions[1])))

(* C6, amended: the kept candidate is dropped exactly when its score,      *)
(* before scaling, is below 0.62 or it is over a size limit, and emitted   *)
(* otherwise.                                                              *)
C6_DropsOnRawScore ==
    (Returned /\ regions # <<>>) =>
        (Detections = <<>>
            <=> (regions[1].score < 6200 \/ RegionTooLarge(regions[1])))

(* the kept candidate is within the size limits, its confidence would be   *)
(* at least 0.62, its score is below 0.62, and it was dropped              *)
C6_Witness ==
    /\ Returned
    /\ regions # <<>>
    /\ ~RegionTooLarge(regions[1])
    /\ ScaledConfidence(regions[1].score) >= 62
    /\ regions[1].score < 6200
    /\ Detections = <<>>

(* C7, as claimed: a call of detect_doors either raises the decode error,   *)
(* for bytes that do not decode, or returns a complete result carrying the *)
(* decoded size; bytes that decode never make it raise.                    *)
C7_DecodeErrorOrResult ==
    /\ exc # "none" => (exc = "ValueError" /\ ~Decodes(file))
    /\ (pc = "returned" /\ exc = "none") =>
          (result.image_width = file.w /\ result.image_height = file.h)

(* C8, as claimed: every candidate in the pool has a score in [0, 1].      *)
C8_ScoreInUnitInterval ==
    \A i \in 1..Len(candidates) :
        0 <= candidates[i].score /\ candidates[i].score <= Unit

(* C10: at /detect a decode failure is answered 400, any other failure     *)
(* inside detect_doors 500, and neither is answered as the other.          *)
C10_DecodeIs400InternalIs500 ==
    pc = "done" =>
        /\ exc = "ValueError" => (status = 400 /\ ~Decodes(file))
        /\ (exc # "none" /\ exc # "ValueError") => (status = 500 /\ Decodes(file))
        /\ status = 500 => (exc # "none" /\ exc # "ValueError")
        /\ (status = 400 /\ exc # "none") => exc = "ValueError"

(* an image that decodes made cv2.kmeans fail: answered 500 *)
C10_Witness ==
    /\ pc = "done"
    /\ Decodes(file)
    /\ exc = "cv2.error"
    /\ status = 500

(* the pool in another order of appending: p is a permutation of 1..Len(cs) *)
Reordered(cs, p) == [i \in 1..Len(cs) |-> cs[p[i]]]

(* the tuple (x, y, w, h, score) of a region, which is all the code keeps *)
AsTuple(c) == <<c.x, c.y, c.w, c.h, c.score>>
AsTuples(cs) == [i \in 1..Len(cs) |-> AsTuple(cs[i])]

(* the candidates of the highest score *)
TopScored(cs) ==
    {AsTuple(cs[i]) : i \in {j \in 1..Len(cs) : \A k \in 1..Len(cs) : cs[k].score <= cs[j].score}}

(* C9, as claimed: whatever the order in which the candidates were         *)
(* appended, sort, NMS and take-first return the same region, also when    *)
(* candidates have equal scores.                                           *)
C9_OrderIndependent ==
    pc = "filter" =>
        \A p \in Permutations(1..Len(candidates)) :
            AsTuples(SuppressedRegions(Reordered(candidates, p))) = AsTuples(regions)

(* C9, amended: the same, provided no two different candidates share the   *)
(* highest score.                                                          *)
C9_OrderIndependentWithoutTopTie ==
    (pc = "filter" /\ Cardinality(TopScored(candidates)) <= 1) =>
        \A p \in Permutations(1..Len(candidates)) :
            AsTuples(SuppressedRegions(Reordered(candidates, p))) = AsTuples(regions)

(* several candidates, one best, which was not the first appended *)
C9_Witness ==
    /\ pc = "filter"
    /\ Len(candidates) >= 3
    /\ Cardinality(TopScored(candidates)) = 1
    /\ AsTuple(candidates[1]) \notin TopScored(candidates)
    /\ \E i, j \in 1..Len(candidates) :
          i # j /\ candidates[i].score = candidates[j].score
                /\ AsTuple(candidates[i]) # AsTuple(candidates[j])
    /\ AsTuple(regions[1]) \in TopScored(candidates)

(* Scenario A: the 400 x 600 image with the rectangle x=150, y=350, w=100,  *)
(* h=200                                                                   *)
IsScenarioABox(c) == c.x = 150 /\ c.y = 350 /\ c.w = 100 /\ c.h = 200

(* the pool holds the rectangle as a colour candidate, and nothing but the *)
(* rectangle (from the colour passes, or from the pair of its edges)       *)
ScenarioAPool ==
    /\ file.w = 400 /\ file.h = 600
    /\ \E i \in 1..Len(candidates) :
          candidates[i].src = "colour" /\ IsScenarioABox(candidates[i])
    /\ \A i \in 1..Len(candidates) : IsScenarioABox(candidates[i])

(* IoU of the box b with (150, 350, 250, 550) is at least 0.7 *)
IoUWithScenarioA(b) ==
    LET iw    == Max(0, Min(b.xmax, 250) - Max(b.xmin, 150))
        ih    == Max(0, Min(b.ymax, 550) - Max(b.ymin, 350))
        inter == iw * ih
        union == (b.xmax - b.xmin) * (b.ymax - b.ymin) + 100 * 200 - inter
    IN  10 * inter >= 7 * union

(* C11: Scenario A.  When the pool of the 400 x 600 image holds the colour  *)
(* candidate (150, 350, 100, 200), with or without the line pair of its    *)
(* two vertical edges, detect_doors returns exactly one detection, labelled *)
(* "Entrance", of confidence >= 0.62, whose box has IoU >= 0.7 with        *)
(* (150, 350, 250, 550).                                                   *)
C11_ScenarioA ==
    (Returned /\ ScenarioAPool) =>
        /\ Len(Detections) = 1
        /\ Detections[1].label = "Entrance"
        /\ Detections[1].confidence >= 62
        /\ IoUWithScenarioA(Detections[1].bbox)

(* the rectangle came from a colour pass and from the line detector, and   *)
(* the one detection is the rectangle                                      *)
C11_Witness ==
    /\ Returned
    /\ ScenarioAPool
    /\ \E i \in 1..Len(candidates) : candidates[i].src = "line"
    /\ Len(Detections) = 1
    /\ Detections[1].bbox = [xmin |-> 150, ymin |-> 350, xmax |-> 250, ymax |-> 550]

(* the colour distance norm / 255 of the cluster to the dominant colour is *)
(* below 0.10                                                              *)
NearDominant(cluster, dom) == 10 * 10 * NormSq(cluster, dom) < 255 * 255

(* C12: Scenario B.  A component of a cluster whose colour is less than    *)
(* 0.10 from the dominant colour adds no candidate, whatever its box; no   *)
(* Hough lines add no candidate; and with an empty pool detect_doors       *)
(* returns zero detections and raises nothing.                             *)
C12_ScenarioB ==
    /\ pc = "components" =>
          \A cc \in Components(file.w, file.h), cluster \in ClusterColours,
             dom \in DominantColours :
              NearDominant(cluster, dom) => ~ComponentScored(cc, cluster, dom, file.w, file.h)
    /\ pc = "lines" => add_line_candidates(<<>>, file.w, file.h) = <<>>
    /\ (pc \in {"filter", "returned"} /\ candidates = <<>>) =>
          (regions = <<>> /\ exc = "none")
    /\ (Returned /\ candidates = <<>>) =>
          (Detections = <<>> /\ result.image_width = file.w /\ status \in {0, 200})

(* a uniform image was answered: its clusters have components that only    *)
(* their colour keeps out of the pool, the pool stayed empty, and the      *)
(* response is 200 with no detection                                       *)
C12_Witness ==
    /\ pc = "done"
    /\ status = 200
    /\ candidates = <<>>
    /\ Detections = <<>>
    /\ \E cc \in Components(file.w, file.h), cluster, far \in ClusterColours,
          dom \in DominantColours :
          /\ NearDominant(cluster, dom)
          /\ ~ComponentScored(cc, cluster, dom, file.w, file.h)
          /\ ComponentScored(cc, far, dom, file.w, file.h)

(* the first appended of the candidates of the highest score *)
FirstTopScored(cs) ==
    cs[CHOOSE i \in 1..Len(cs) :
          /\ \A k \in 1..Len(cs) : cs[k].score <= cs[i].score
          /\ \A k \in 1..(i - 1) : cs[k].score < cs[i].score]

(* the candidate c alone would be emitted by the filter of detect_doors *)
WouldPass(c) == c.score >= 6200 /\ ~RegionTooLarge(c)

(* c and d do not intersect *)
Disjoint(c, d) ==
    \/ c.x + c.w <= d.x \/ d.x + d.w <= c.x
    \/ c.y + c.h <= d.y \/ d.y + d.h <= c.y

(* C16: with a non-empty pool _find_door_regions returns exactly the       *)
(* highest-scoring candidate of the pool, and detect_doors emits that      *)
(* candidate or nothing: when it fails the final filter no detection is    *)
(* returned, whatever else the pool holds.                                 *)
C16_OnlyTopCandidate ==
    /\ (pc \in {"filter", "returned"} /\ candidates # <<>>) =>
          regions = <<FirstTopScored(candidates)>>
    /\ (Returned /\ candidates # <<>>) =>
          /\ regions = <<FirstTopScored(candidates)>>
          /\ ~WouldPass(regions[1]) => Detections = <<>>
          /\ \A i \in 1..Len(Detections) :
                /\ Detections[i].bbox.xmin = regions[1].x
                /\ Detections[i].bbox.ymin = regions[1].y
                /\ Detections[i].bbox.xmax = regions[1].x + regions[1].w
                /\ Detections[i].bbox.ymax = regions[1].y + regions[1].h

(* the best candidate was too high for the filter, a candidate of a lower  *)
(* score that does not touch it would have passed, and nothing was         *)
(* returned                                                                *)
C16_Witness ==
    /\ Returned
    /\ Len(candidates) >= 2
    /\ ~WouldPass(regions[1])
    /\ \E i \in 1..Len(candidates) :
          /\ candidates[i].score < regions[1].score
          /\ Disjoint(candidates[i], regions[1])
          /\ WouldPass(candidates[i])
    /\ Detections = <<>>

(* C19, as claimed: no returned box starts above 0.08 * image_height,      *)
(* whether it came from a colour candidate or from a line pair.            *)
C19_TopEdgeRuleForAll ==
    \A i \in 1..Len(Detections) :
        100 * Detections[i].bbox.ymin >= 8 * result.image_height

(* C19, amended: no returned box that came from a colour candidate starts  *)
(* above 0.08 * image_height; a line pair is not tested on its top edge    *)
(* and can be returned from any height, the top of the image included.     *)
C19_TopEdgeRuleForColour ==
    Returned =>
        \A i \in 1..Len(Detections) :
            regions[i].src = "colour" =>
                100 * Detections[i].bbox.ymin >= 8 * result.image_height

(* the pool held a colour candidate and a line pair that both start at the *)
(* top of the image: the colour candidate was scored 0, which only its top *)
(* edge explains, and the line pair was returned                           *)
C19_Witness ==
    /\ Returned
    /\ \E i \in 1..Len(candidates) :
          /\ candidates[i].src = "colour"
          /\ 100 * candidates[i].y < 8 * file.h
          /\ 100 * (candidates[i].y + candidates[i].h) >= 45 * file.h
          /\ candidates[i].score = 0
    /\ Len(Detections) = 1
    /\ regions[1].src = "line"
    /\ Detections[1].bbox.ymin = 0

----------------------------------------------------------------------------
(* Properties of the helpers, under FunctionSpec *)

ScoreCall == call.fn = "_score_candidate"

(* a candidate tuple carrying the box and the returned score of the call *)
ScoredTuple ==
    [x |-> call.args.ox, y |-> call.args.oy, w |-> call.args.ocw, h |-> call.args.och,
     score |-> call.ret, src |-> "colour"]

(* the box of the call ends above 0.45 * H, or starts above 0.08 * H *)
HardRejected ==
    \/ 100 * (call.args.oy + call.args.och) < 45 * file.h
    \/ 100 * call.args.oy < 8 * file.h

(* C13: _score_candidate returns exactly 0 when the bottom edge of the box *)
(* is above 0.45 * H or its top edge above 0.08 * H, whatever the other    *)
(* arguments, and a candidate with that score does not pass the filter of  *)
(* detect_doors.                                                           *)
C13_HardRejectsScoreZero ==
    (ScoreCall /\ HardRejected) =>
        /\ call.ret = 0
        /\ FilterRegions(<<ScoredTuple>>, file.w, file.h) = <<>>

(* a tall, centred, solid, well coloured box that starts one pixel above   *)
(* 0.08 * H and ends below 0.45 * H was scored 0                           *)
C13_Witness ==
    /\ ScoreCall
    /\ file.h = 600
    /\ 100 * (call.args.oy + 1) >= 8 * file.h
    /\ 100 * call.args.oy < 8 * file.h
    /\ 100 * (call.args.oy + call.args.och) >= 45 * file.h
    /\ call.args.ocw > 0
    /\ call.args.solidity = Unit
    /\ call.args.color_dist > Unit
    /\ call.ret = 0

(* The terms of the score as the formula states them, in units of 1/100000 *)

(* 1.0 / 0.7 / 0.4 / 0.1 for aspect h/w >= 1.3 / >= 0.8 / >= 0.5 / below    *)
(* (the aspect of a box of width 0 is 0)                                   *)
ShapeTerm ==
    LET bw == call.args.ocw
        bh == call.args.och
    IN  IF bw > 0 /\ 10 * bh >= 13 * bw THEN 100000
        ELSE IF bw > 0 /\ 10 * bh >= 8 * bw THEN 70000
        ELSE IF bw > 0 /\ 10 * bh >= 5 * bw THEN 40000
        ELSE 10000

(* 1 - |center_x - W/2| / (W/2) *)
HorizontalTerm ==
    (100000 * (file.w - Abs(2 * call.args.ox + call.args.ocw - file.w))) \div file.w

(* 1.0 with the vertical centre in [0.35, 0.70] * H, 0.6 lower, 0.3 higher *)
VerticalTerm ==
    LET c2 == 2 * call.args.oy + call.args.och
    IN  IF 100 * c2 < 70 * file.h THEN 30000
        ELSE IF 100 * c2 > 140 * file.h THEN 60000
        ELSE 100000

(* min(real_area / (0.03 * W * H), 1.0), real_area = cc_area / scale^2 *)
SizeTerm ==
    LET real100 == call.args.cc_area * ScaleDen(file.w, file.h) * ScaleDen(file.w, file.h) * 100
        full    == 3 * file.w * file.h * ScaleNum(file.w, file.h) * ScaleNum(file.w, file.h)
    IN  IF real100 >= full THEN 100000 ELSE ((real100 * 1000) \div full) * 100

WeightedSum ==
    (30 * ShapeTerm + 25 * HorizontalTerm + 15 * VerticalTerm + 10 * SizeTerm
        + 100 * call.args.color_dist + 100 * call.args.solidity) \div 100

(* C14: for a box that passes the hard rejects, _score_candidate returns   *)
(* 0.30*shape + 0.25*horizontal + 0.15*vertical + 0.10*size                *)
(* + 0.10*color_dist + 0.10*solidity (to the precision of the fixed point, *)
(* 0.0005).                                                                *)
C14_ScoreIsWeightedSum ==
    (ScoreCall /\ ~HardRejected) =>
        Abs(10 * call.ret - WeightedSum) <= 50

(* a scored box that is squarish (shape 0.7), high in the image (vertical   *)
(* 0.3), off centre and smaller than 3% of the image                       *)
C14_Witness ==
    /\ ScoreCall
    /\ ~HardRejected
    /\ ShapeTerm = 70000
    /\ VerticalTerm = 30000
    /\ HorizontalTerm < 100000
    /\ SizeTerm < 100000
    /\ call.ret > 0

NmsCall == call.fn = "nms"

(* intersection over smaller area of two boxes is above 0.4 *)
IoSAbove(a, b) ==
    LET iw == Min(a.x + a.w, b.x + b.w) - Max(a.x, b.x)
        ih == Min(a.y + a.h, b.y + b.h) - Max(a.y, b.y)
        sm == IF a.w * a.h <= b.w * b.h THEN a.w * a.h ELSE b.w * b.h
    IN  iw > 0 /\ ih > 0 /\ 10 * iw * ih > 4 * sm

(* the candidates kept among the first n of cs by the rule: keep a         *)
(* candidate iff it is not above 0.4 with any candidate kept before it     *)
RECURSIVE KeptAmong(_, _)
KeptAmong(cs, n) ==
    IF n = 0 THEN <<>>
    ELSE LET before == KeptAmong(cs, n - 1)
         IN  IF \A i \in 1..Len(before) : ~IoSAbove(cs[n], before[i])
             THEN Append(before, cs[n]) ELSE before

(* how many times c occurs in cs *)
Occurrences(c, cs) == Cardinality({i \in 1..Len(cs) : cs[i] = c})

(* C15: the loop takes the candidates in descending order of score and     *)
(* keeps one iff its intersection over smaller area with every candidate   *)
(* kept so far is <= 0.4; so no two kept candidates are above 0.4, every   *)
(* dropped candidate is above 0.4 with a kept candidate of a score at      *)
(* least its own, and no division by zero happens, whatever the boxes.     *)
C15_GreedySuppression ==
    NmsCall =>
        LET sorted == call.ret.sorted
            kept   == call.ret.kept
        IN  /\ Len(sorted) = Len(call.args)
            /\ \A i \in 1..Len(sorted) :
                  Occurrences(sorted[i], sorted) = Occurrences(sorted[i], call.args)
            /\ \A i, j \in 1..Len(sorted) : i < j => sorted[i].score >= sorted[j].score
            /\ kept = KeptAmong(sorted, Len(sorted))
            /\ \A i, j \in 1..Len(kept) : i # j => ~IoSAbove(kept[i], kept[j])
            /\ \A i \in 1..Len(sorted) :
                  Occurrences(sorted[i], kept) < Occurrences(sorted[i], sorted) =>
                      \E k \in 1..Len(kept) :
                          kept[k].score >= sorted[i].score /\ IoSAbove(sorted[i], kept[k])
            /\ ~call.ret.zero_division

(* a pool of three: a candidate that overlaps the best by exactly 0.4 was  *)
(* kept beside it, and a candidate of a lower score was dropped            *)
C15_Witness ==
    /\ NmsCall
    /\ Len(call.args) = 3
    /\ Len(call.ret.kept) = 2
    /\ \E i, j \in 1..Len(call.ret.kept) :
          LET a == call.ret.kept[i]
              b == call.ret.kept[j]
          IN  /\ a.w * a.h > 0 /\ b.w * b.h > 0
              /\ 10 * Intersection(a, b) = 4 * Min(a.w * a.h, b.w * b.h)
    /\ \E i \in 1..Len(call.args) :
          call.args[i].score < call.ret.kept[1].score
              /\ Occurrences(call.args[i], call.ret.kept) = 0

ComponentCall == call.fn = "component"

(* the box of the component at the size of the image: int(v / scale) *)
FullSize(v) == (v * ScaleDen(file.w, file.h)) \div ScaleNum(file.w, file.h)

(* real_area, the area of the component at the size of the image, is       *)
(* outside [0.01, 0.50] of the image area                                  *)
RealAreaOutside(cc) ==
    LET real == cc.area * ScaleDen(file.w, file.h) * ScaleDen(file.w, file.h)
        img  == file.w * file.h * ScaleNum(file.w, file.h) * ScaleNum(file.w, file.h)
    IN  100 * real < img \/ 2 * real > img

BoxTooSmall(cc) == FullSize(cc.cw) < 10 \/ FullSize(cc.ch) < 15

NotSolid(cc) == 100 * cc.area < 35 * cc.cw * cc.ch

(* aspect h/w outside [1.1, 5.0] for a box whose bottom is in the upper     *)
(* half of the image, outside [0.4, 5.0] for one whose bottom is below     *)
AspectOutside(cc) ==
    LET bw  == FullSize(cc.cw)
        bh  == FullSize(cc.ch)
        bot == FullSize(cc.y) + bh
    IN  IF 2 * bot > file.h
        THEN 10 * bh < 4 * bw \/ bh > 5 * bw
        ELSE 10 * bh < 11 * bw \/ bh > 5 * bw

(* one of the listed reasons to discard the component of the call holds *)
Discarded ==
    LET cc == call.args.cc
    IN  \/ RealAreaOutside(cc)
        \/ BoxTooSmall(cc)
        \/ NotSolid(cc)
        \/ AspectOutside(cc)
        \/ NearDominant(Centers[call.args.label_id], Centers[call.args.dominant_label])

(* C17: a component of a non-dominant cluster is scored, and appended, iff *)
(* none of the listed reasons holds (area outside [1%, 50%], width < 10 or *)
(* height < 15, solidity < 0.35, aspect outside its window, colour         *)
(* distance < 0.10); otherwise it is discarded without being scored; a     *)
(* component of the dominant cluster is never considered.                  *)
C17_ScoredIffNotDiscarded ==
    ComponentCall =>
        /\ call.args.label_id = call.args.dominant_label =>
              (~call.ret.scored /\ call.ret.appended = <<>>)
        /\ call.args.label_id # call.args.dominant_label =>
              (call.ret.scored <=> ~Discarded)
        /\ call.ret.scored => Len(call.ret.appended) = 1
        /\ ~call.ret.scored => call.ret.appended = <<>>

(* a wide box (aspect below 1.1 but not below 0.4) that ends in the upper   *)
(* half and has no other fault was discarded                               *)
C17_Witness ==
    /\ ComponentCall
    /\ call.args.label_id # call.args.dominant_label
    /\ ~RealAreaOutside(call.args.cc)
    /\ ~BoxTooSmall(call.args.cc)
    /\ ~NotSolid(call.args.cc)
    /\ ~NearDominant(Centers[call.args.label_id], Centers[call.args.dominant_label])
    /\ 2 * (FullSize(call.args.cc.y) + FullSize(call.args.cc.ch)) <= file.h
    /\ 10 * FullSize(call.args.cc.ch) >= 4 * FullSize(call.args.cc.cw)
    /\ 10 * FullSize(call.args.cc.ch) < 11 * FullSize(call.args.cc.cw)
    /\ ~call.ret.scored

LineCall == call.fn = "_add_line_candidates"

(* the segment is within 15 degrees of the vertical, whichever of its ends *)
(* is reported first                                                       *)
WithinFifteenOfVertical(s) ==
    \/ s.x1 = s.x2 /\ s.y1 = s.y2
    \/ s.y1 # s.y2 /\ 1000000 * Abs(s.x2 - s.x1) < 267949 * Abs(s.y2 - s.y1)

(* the segment is within 15 degrees of the vertical and reported from its  *)
(* upper end to its lower end                                              *)
ReportedDownwards(s) == WithinFifteenOfVertical(s) /\ s.y1 <= s.y2

(* the pair (l, r) of segments, l left of r, meets the five conditions:    *)
(* gap in [0.08, 0.45] * W, span >= 0.25 * H, span / gap in [1.2, 4.5],    *)
(* gap * span >= 1% of the image, lower edge not in the top half           *)
PairQualifies(l, r) ==
    LET gap2 == (r.x1 + r.x2) - (l.x1 + l.x2)
        top  == Min(Min(l.y1, l.y2), Min(r.y1, r.y2))
        bot  == Max(Max(l.y1, l.y2), Max(r.y1, r.y2))
        span == bot - top
    IN  /\ 100 * gap2 >= 16 * file.w /\ 100 * gap2 <= 90 * file.w
        /\ 4 * span >= file.h
        /\ 20 * span >= 12 * gap2 /\ 20 * span <= 45 * gap2
        /\ 100 * gap2 * span >= 2 * file.w * file.h
        /\ 2 * bot >= file.h

(* the candidate c is the one of the pair (l, r): the box from the left    *)
(* segment and the top of the span, as wide as the gap and as high as the  *)
(* span, with score 0.45 * bottom_ratio + 0.35 * horizontal_centering      *)
(* + 0.20 (to the precision of the fixed point)                            *)
IsCandidateOfPair(c, l, r) ==
    LET lx2  == l.x1 + l.x2
        rx2  == r.x1 + r.x2
        top  == Min(Min(l.y1, l.y2), Min(r.y1, r.y2))
        bot  == Max(Max(l.y1, l.y2), Max(r.y1, r.y2))
        s5   == (45000 * bot) \div file.h
                + (35000 * (2 * file.w - Abs(lx2 + rx2 - 2 * file.w))) \div (2 * file.w)
                + 20000
    IN  /\ c.x = lx2 \div 2 /\ c.y = top
        /\ c.w = (rx2 - lx2) \div 2 /\ c.h = bot - top
        /\ Abs(10 * c.score - s5) <= 20

(* the pairs (i, j) of positions in the segments of the call, i left of j, *)
(* of two segments that satisfy Upright and meet the conditions            *)
QualifyingPairs(Upright(_)) ==
    {p \in (1..Len(call.args)) \X (1..Len(call.args)) :
        /\ Upright(call.args[p[1]]) /\ Upright(call.args[p[2]])
        /\ call.args[p[1]].x1 + call.args[p[1]].x2 < call.args[p[2]].x1 + call.args[p[2]].x2
        /\ PairQualifies(call.args[p[1]], call.args[p[2]])}

(* one candidate for each pair of Q, and no other candidate *)
OneCandidatePerPair(Q) ==
    /\ Len(call.ret) = Cardinality(Q)
    /\ \A p \in Q : \E i \in 1..Len(call.ret) :
          IsCandidateOfPair(call.ret[i], call.args[p[1]], call.args[p[2]])
    /\ \A i \in 1..Len(call.ret) : \E p \in Q :
          IsCandidateOfPair(call.ret[i], call.args[p[1]], call.args[p[2]])

(* C18, as claimed: the line detector adds one candidate for every (left,  *)
(* right) pair of segments within 15 degrees of the vertical that meets    *)
(* the five conditions, and for no other pair; each has score              *)
(* 0.45 * bottom_ratio + 0.35 * horizontal_centering + 0.20.               *)
C18_CandidatePerVerticalPair ==
    LineCall => OneCandidatePerPair(QualifyingPairs(WithinFifteenOfVertical))

(* C18, what the code does: the same for the pairs of segments that are    *)
(* reported from their upper end to their lower end; a segment reported    *)
(* from its lower end upwards is not taken as near-vertical.               *)
C18_CandidatePerDownwardPair ==
    LineCall => OneCandidatePerPair(QualifyingPairs(ReportedDownwards))

----------------------------------------------------------------------------
(* The three detectors of the /detect handler, under Spec *)

DetectorOrder == <<"detect_doors", "run_detection", "segment_scene">>

(* a detector raised and the handler logged it and went on *)
DetectorSkipped == warnings # <<>>

(* the response starts with every detection of detect_doors, in order,     *)
(* with the ids det_0, det_1, ...                                          *)
DoorsFirst ==
    /\ Len(response.detections) >= Len(Detections)
    /\ \A i \in 1..Len(Detections) :
          response.detections[i] = [Detections[i] EXCEPT !.id = i - 1]

(* C20: the handler calls detect_doors, run_detection and segment_scene in *)
(* this order; when run_detection or segment_scene raises, the request is  *)
(* still answered 200 with the merge, which starts with every door         *)
(* detection renumbered from det_0; when detect_doors raises, the request  *)
(* fails with 400 or 500 and neither of the other two detectors was called *)
C20_OnlyDetectDoorsFailsTheRequest ==
    /\ \E n \in 0..Len(DetectorOrder) : ran = SubSeq(DetectorOrder, 1, n)
    /\ DetectorSkipped =>
          /\ exc = "none"
          /\ pc \in {"scene", "merge", "done"}
          /\ pc = "done" =>
                /\ status = 200
                /\ ran = DetectorOrder
                /\ response = merge_all(result, coco_result, scene_dets)
                /\ DoorsFirst
    /\ exc # "none" =>
          /\ ran = <<"detect_doors">>
          /\ warnings = <<>>
          /\ response = NoResponse
          /\ pc = "done" => status \in {400, 500}
    /\ (pc = "done" /\ ran # <<>> /\ exc = "none") => (status = 200 /\ DoorsFirst)

(* both run_detection and segment_scene raised after detect_doors found a  *)
(* door: the request was answered 200 with that door alone, as det_0       *)
C20_Witness ==
    /\ pc = "done"
    /\ warnings = <<"COCO detection skipped", "Scene segmentation skipped">>
    /\ status = 200
    /\ Len(Detections) = 1
    /\ response.detections = <<[Detections[1] EXCEPT !.id = 0]>>

----------------------------------------------------------------------------
(* Properties of load_model, under LoaderSpec *)

(* the calls that returned a pair *)
Successful == {i \in 1..Len(returns) : returns[i] # Raised}

(* every call after a call that returned a pair returns that pair *)
SamePairAfterSuccess ==
    \A i \in Successful : \A j \in i..Len(returns) : returns[j] = returns[i]

(* C21, as claimed: over any sequence of load_model calls, earlier calls   *)
(* that raised included, the underlying load of a model is performed at    *)
(* most once, and every call after a successful one returns the same pair  *)
C21_LoadedAtMostOnce ==
    /\ loads <= 1
    /\ SamePairAfterSuccess

(* what does hold: once a call has returned a pair, every later call       *)
(* returns that pair and starts no underlying load                         *)
C21_CachedAfterSuccess ==
    /\ SamePairAfterSuccess
    /\ Successful # {} => detector = returns[Len(returns)]
    /\ \A i \in Successful : \A j \in i..Len(returns) :
          returns[j].model <= attempts /\ returns[i].model = returns[j].model

(* after a call returned a pair, two more calls were made and no           *)
(* underlying load was started by them                                     *)
C21_CachedWitness ==
    /\ Len(returns) = 3
    /\ returns[1] # Raised
    /\ attempts = returns[1].model
    /\ returns[3] = returns[1]

====
